---------------------------- MODULE Spec2Model ----------------------------
(***************************************************************************)
(* Model of px4tools/analysis.py: the dataframe helpers (get_float_data,   *)
(* get_auto_data, set_time_series, process_data), the noise statistics     *)
(* (new_sample, find_meas_period, statistics, find_lpe_gains,              *)
(* all_new_sample), background_flight_modes and process_lpe_health.        *)
(*                                                                         *)
(* A float is a record [n, d, rt]: the rational n/d (d > 0, lowest terms), *)
(* or its square root when rt is TRUE; d = 0 encodes the non-finite        *)
(* values (0/0 = NaN, 1/0 = +inf, -1/0 = -inf).  Arithmetic is exact: the  *)
(* rounding of IEEE doubles is not modelled.  A cell of an object column   *)
(* is a record [s |-> "..."] holding a string.                             *)
(*                                                                         *)
(* A Series is [index, values]; a DataFrame is [index, columns, data] with *)
(* columns the ordered column labels and data[c] the values of column c.   *)
(* A call yields [exc, val]: exc = "" when it returns val, otherwise the   *)
(* name of the exception it raises.                                        *)
(***************************************************************************)
EXTENDS Integers, Sequences, FiniteSets, TLC

VARIABLES
    df,     \* the caller's dataframe, the object passed to every call
    call,   \* the last call made: [fn, keys]
    ret     \* what the last call produced: [exc, val]

vars == <<df, call, ret>>

---------------------------------------------------------------------------
(* Floats *)

Abs(i) == IF i < 0 THEN -i ELSE i

RECURSIVE Gcd(_, _)
Gcd(a, b) == IF b = 0 THEN a ELSE Gcd(b, a % b)

\* the rational n/d, d # 0, in lowest terms with a positive denominator
Rat(n, d) ==
    LET g == Gcd(Abs(n), Abs(d))
        s == IF d < 0 THEN -1 ELSE 1
    IN  [n |-> (s * n) \div g, d |-> (s * d) \div g, rt |-> FALSE]

Num(i) == [n |-> i, d |-> 1, rt |-> FALSE]
NaN == [n |-> 0, d |-> 0, rt |-> FALSE]
PosInf == [n |-> 1, d |-> 0, rt |-> FALSE]

IsStr(c) == "s" \in DOMAIN c
IsNaN(x) == x.d = 0 /\ x.n = 0
isfinite(x) == x.d # 0

Sign(i) == IF i > 0 THEN 1 ELSE IF i < 0 THEN -1 ELSE 0

\* x + y and x - y on rationals and non-finite values
Add(x, y) ==
    IF IsNaN(x) \/ IsNaN(y) THEN NaN
    ELSE IF x.d = 0 /\ y.d = 0 THEN (IF x.n = y.n THEN x ELSE NaN)
    ELSE IF x.d = 0 THEN x
    ELSE IF y.d = 0 THEN y
    ELSE Rat(x.n * y.d + y.n * x.d, x.d * y.d)

Neg(x) == [x EXCEPT !.n = -x.n]

Sub(x, y) == Add(x, Neg(y))

Mul(x, y) ==
    IF IsNaN(x) \/ IsNaN(y) THEN NaN
    ELSE IF x.d = 0 \/ y.d = 0
         THEN (IF x.n = 0 \/ y.n = 0 THEN NaN
               ELSE [n |-> Sign(x.n) * Sign(y.n), d |-> 0, rt |-> FALSE])
    ELSE Rat(x.n * y.n, x.d * y.d)

\* x / k for an integer k > 0
DivInt(x, k) == IF x.d = 0 THEN x ELSE Rat(x.n, x.d * k)

\* pl.sqrt: the root is kept symbolic
Sqrt(x) ==
    IF IsNaN(x) \/ x.n < 0 THEN NaN
    ELSE IF x.d = 0 THEN x
    ELSE [x EXCEPT !.rt = TRUE]

\* x ** 2
Square(x) == IF x.rt THEN [x EXCEPT !.rt = FALSE] ELSE Mul(x, x)

\* x < y by value, for x, y that are not NaN
Less(x, y) ==
    LET neg(z) == z.n < 0
        sq(z) == Square(z)
        lt(a, b) ==   \* rationals or infinities, no roots
            IF a.d = 0 \/ b.d = 0
            THEN (IF a.d = 0 /\ b.d = 0 THEN a.n < b.n
                  ELSE IF a.d = 0 THEN a.n < 0 ELSE b.n > 0)
            ELSE a.n * b.d < b.n * a.d
    IN  IF ~x.rt /\ ~y.rt THEN lt(x, y)
        ELSE IF neg(x) /\ ~neg(y) THEN TRUE
        ELSE IF ~neg(x) /\ neg(y) THEN FALSE
        ELSE IF neg(x) THEN lt(sq(y), sq(x))
        ELSE lt(sq(x), sq(y))

\* pl.absolute(x) > 0
AbsPositive(x) == ~IsNaN(x) /\ x.n # 0

---------------------------------------------------------------------------
(* Series and DataFrame primitives *)

RECURSIVE TruePositions(_, _)
TruePositions(mask, i) ==
    IF i > Len(mask) THEN <<>>
    ELSE (IF mask[i] THEN <<i>> ELSE <<>>) \o TruePositions(mask, i + 1)

Take(seq, pos) == [k \in 1..Len(pos) |-> seq[pos[k]]]

\* series[mask]
SeriesMask(series, mask) ==
    LET pos == TruePositions(mask, 1)
    IN  [index |-> Take(series.index, pos), values |-> Take(series.values, pos)]

\* frame[mask]
FrameMask(frame, mask) ==
    LET pos == TruePositions(mask, 1)
    IN  [index |-> Take(frame.index, pos),
         columns |-> frame.columns,
         data |-> [c \in DOMAIN frame.data |-> Take(frame.data[c], pos)]]

HasColumn(frame, c) == c \in DOMAIN frame.data

\* frame[c]
Column(frame, c) == [index |-> frame.index, values |-> frame.data[c]]

Returned(v) == [exc |-> "", val |-> v]
Raised(e) == [exc |-> e, val |-> <<>>]

NoCall == [fn |-> "", keys |-> <<>>, plot |-> FALSE]
NoRet == Returned(<<>>)

\* the strings among the model's cells that float() accepts, with their values
FloatOfStr == [s \in {"7", "nan"} |-> IF s = "7" THEN Num(7) ELSE NaN]

\* whether float(cell) succeeds, and its value
CanFloat(c) == ~IsStr(c) \/ c.s \in DOMAIN FloatOfStr
ToFloat(c) == IF IsStr(c) THEN FloatOfStr[c.s] ELSE c

\* RangeIndex(n)
RangeIndex(n) == [i \in 1..n |-> Num(i - 1)]

---------------------------------------------------------------------------
(* get_auto_data *)

AUTO_MISSION == 3

\* get_auto_data without the GPSP_Lon filter of line 140
get_auto_data_NoLon(data) ==
    LET d1 == FrameMask(data, [i \in 1..Len(data.index) |->
                    data.data["STAT_MainState"][i] = Num(3)])
        d2 == FrameMask(d1, [i \in 1..Len(d1.index) |->
                    isfinite(ToFloat(d1.data["GPSP_Lat"][i]))])
    IN  IF Len(d2.index) = 0 THEN Raised("RuntimeError: no auto mode detected")
        ELSE Returned(d2)

get_auto_data(data) ==
    IF ~HasColumn(data, "STAT_MainState") THEN Raised("KeyError")
    ELSE LET d1 == FrameMask(data, [i \in 1..Len(data.index) |->
                        data.data["STAT_MainState"][i] = Num(AUTO_MISSION)])
         IN IF ~HasColumn(d1, "GPSP_Lat") THEN Raised("KeyError")
            ELSE IF \E i \in 1..Len(d1.index) : ~CanFloat(d1.data["GPSP_Lat"][i])
            THEN Raised("ValueError")
            ELSE LET d2 == FrameMask(d1, [i \in 1..Len(d1.index) |->
                                isfinite(ToFloat(d1.data["GPSP_Lat"][i]))])
                 IN IF ~HasColumn(d2, "GPSP_Lon") THEN Raised("KeyError")
                    ELSE IF \E i \in 1..Len(d2.index) :
                                ~CanFloat(d2.data["GPSP_Lon"][i])
                    THEN Raised("ValueError")
                    ELSE LET d3 == FrameMask(d2, [i \in 1..Len(d2.index) |->
                                        isfinite(ToFloat(d2.data["GPSP_Lon"][i]))])
                         IN IF Len(d3.index) = 0
                            THEN Raised("RuntimeError: no auto mode detected")
                            ELSE Returned(d3)

MaxAutoRows == 3

AutoFrame(n, st, lat, lon) ==
    [index |-> RangeIndex(n),
     columns |-> <<"STAT_MainState", "GPSP_Lat", "GPSP_Lon">>,
     data |-> [c \in {"STAT_MainState", "GPSP_Lat", "GPSP_Lon"} |->
                 IF c = "STAT_MainState" THEN st
                 ELSE IF c = "GPSP_Lat" THEN lat ELSE lon]]

InitAuto ==
    /\ \E n \in 0..MaxAutoRows :
         \E st \in [1..n -> {Num(2), Num(3)}],
            lat \in [1..n -> {Num(47), NaN, [s |-> "7"]}],
            lon \in [1..n -> {Num(8), PosInf}] :
              df = AutoFrame(n, st, lat, lon)
    /\ call = NoCall
    /\ ret = NoRet

GetAutoData ==
    /\ call' = [fn |-> "get_auto_data", keys |-> <<>>, plot |-> FALSE]
    /\ ret' = get_auto_data(df)
    /\ UNCHANGED df

NextAuto == GetAutoData

SpecAuto == InitAuto /\ [][NextAuto]_vars

\* the rows of the frame that are in auto mode with a finite commanded
\* position, ascending
AutoRows(frame) ==
    { i \in 1..Len(frame.index) :
        /\ frame.data["STAT_MainState"][i] = Num(3)
        /\ isfinite(ToFloat(frame.data["GPSP_Lat"][i]))
        /\ isfinite(ToFloat(frame.data["GPSP_Lon"][i])) }

\* val holds exactly the rows `rows` of frame, in frame's order, unchanged
IsRowSelection(val, frame, rows) ==
    /\ Len(val.index) = Cardinality(rows)
    /\ val.columns = frame.columns
    /\ DOMAIN val.data = DOMAIN frame.data
    /\ \E pos \in [1..Cardinality(rows) -> rows] :
          /\ \A j, k \in DOMAIN pos : j < k => pos[j] < pos[k]
          /\ \A k \in DOMAIN pos :
                /\ val.index[k] = frame.index[pos[k]]
                /\ \A c \in DOMAIN frame.data :
                      val.data[c][k] = frame.data[c][pos[k]]

\* C6: get_auto_data returns exactly the rows of its input, in their order,
\* whose STAT_MainState is 3 and whose GPSP_Lat and GPSP_Lon are finite; when
\* no row qualifies it raises RuntimeError('no auto mode detected'), so a
\* returned table is never empty.
C6_AutoData ==
    call.fn = "get_auto_data" =>
        IF AutoRows(df) = {}
        THEN ret.exc = "RuntimeError: no auto mode detected"
        ELSE /\ ret.exc = ""
             /\ IsRowSelection(ret.val, df, AutoRows(df))
             /\ Len(ret.val.index) > 0

\* a call that kept two rows and dropped a row between them
C6_Witness ==
    /\ call.fn = "get_auto_data"
    /\ ret.exc = ""
    /\ Len(ret.val.index) = 2
    /\ ret.val.index[1] = Num(0)
    /\ ret.val.index[2] = Num(2)


---------------------------------------------------------------------------
(* get_float_data, set_time_series, process_data *)

\* isfloatarray(col): whether col.astype(float) succeeds
isfloatarray(cells) == \A i \in 1..Len(cells) : CanFloat(cells[i])

\* the ordered labels of cols that keep satisfies
RECURSIVE SelectLabels(_, _, _)
SelectLabels(cols, keep, i) ==
    IF i > Len(cols) THEN <<>>
    ELSE (IF keep[cols[i]] THEN <<cols[i]>> ELSE <<>>)
         \o SelectLabels(cols, keep, i + 1)

get_float_data(dataframe) ==
    IF ~HasColumn(dataframe, "TIME_StartTime") THEN Raised("AttributeError")
    ELSE IF \E i \in 1..Len(dataframe.index) :
                IsStr(dataframe.data["TIME_StartTime"][i])
    THEN Raised("TypeError")
    ELSE LET d1 == FrameMask(dataframe, [i \in 1..Len(dataframe.index) |->
                        isfinite(dataframe.data["TIME_StartTime"][i])])
             float_cols == [c \in DOMAIN d1.data |-> isfloatarray(d1.data[c])]
             kept == SelectLabels(d1.columns, float_cols, 1)
         IN  Returned([index |-> d1.index,
                       columns |-> kept,
                       data |-> [c \in {kept[k] : k \in 1..Len(kept)} |->
                                   [i \in 1..Len(d1.index) |->
                                       ToFloat(d1.data[c][i])]]])

MICROSECONDS == 1000000

\* set_time_series measuring the elapsed time from the row before each row
set_time_series_Prev(data) ==
    IF ~HasColumn(data, "TIME_StartTime") THEN Raised("KeyError")
    ELSE IF Len(data.index) = 0 THEN Raised("IndexError")
    ELSE IF \E i \in 1..Len(data.index) : IsStr(data.data["TIME_StartTime"][i])
    THEN Raised("TypeError")
    ELSE LET T == data.data["TIME_StartTime"]
             t == [i \in 1..Len(T) |->
                     DivInt(Sub(T[i], T[IF i = 1 THEN 1 ELSE i - 1]),
                            MICROSECONDS)]
         IN  Returned([index |-> t, columns |-> data.columns, data |-> data.data])

set_time_series(data) ==
    IF ~HasColumn(data, "TIME_StartTime") THEN Raised("KeyError")
    ELSE IF Len(data.index) = 0 THEN Raised("IndexError")
    ELSE IF \E i \in 1..Len(data.index) : IsStr(data.data["TIME_StartTime"][i])
    THEN Raised("TypeError")
    ELSE LET T == data.data["TIME_StartTime"]
             t == [i \in 1..Len(T) |-> DivInt(Sub(T[i], T[1]), MICROSECONDS)]
         IN  Returned([index |-> t, columns |-> data.columns, data |-> data.data])

process_data(data) ==
    LET floats == get_float_data(data)
    IN  IF floats.exc # "" THEN floats ELSE set_time_series(floats.val)

MaxTimeRows == 3
MaxTick == 2

TimeFrame(n, T, roll, note) ==
    [index |-> RangeIndex(n),
     columns |-> <<"TIME_StartTime", "ATT_Roll", "note">>,
     data |-> [c \in {"TIME_StartTime", "ATT_Roll", "note"} |->
                 IF c = "TIME_StartTime" THEN T
                 ELSE IF c = "ATT_Roll" THEN roll ELSE note]]

InitTime ==
    /\ \E n \in 0..MaxTimeRows :
         \E T \in [1..n -> {NaN} \cup {Num(250000 * k) : k \in 1..MaxTick}],
            roll \in [1..n -> {Num(1), [s |-> "7"]}],
            note \in [1..n -> {Num(2), [s |-> "abc"]}] :
              df = TimeFrame(n, T, roll, note)
    /\ call = NoCall
    /\ ret = NoRet

GetFloatData ==
    /\ call' = [fn |-> "get_float_data", keys |-> <<>>, plot |-> FALSE]
    /\ ret' = get_float_data(df)
    /\ UNCHANGED df

SetTimeSeries ==
    /\ call' = [fn |-> "set_time_series", keys |-> <<>>, plot |-> FALSE]
    /\ ret' = set_time_series(df)
    /\ UNCHANGED df

ProcessData ==
    /\ call' = [fn |-> "process_data", keys |-> <<>>, plot |-> FALSE]
    /\ ret' = process_data(df)
    /\ UNCHANGED df

NextTime == GetFloatData \/ SetTimeSeries \/ ProcessData

SpecTime == InitTime /\ [][NextTime]_vars

\* the rows of the frame whose TIME_StartTime is finite
FiniteTimeRows(frame) ==
    { i \in 1..Len(frame.index) : isfinite(frame.data["TIME_StartTime"][i]) }

\* the ascending enumeration of a set of row positions
Ascending(rows) ==
    CHOOSE pos \in [1..Cardinality(rows) -> rows] :
        \A j, k \in 1..Cardinality(rows) : j < k => pos[j] < pos[k]

\* x <= y on floats that are not NaN
Leq(x, y) == ~Less(y, x)

\* index is the time elapsed since T[1], in seconds
IsElapsed(index, T) ==
    /\ Len(index) = Len(T)
    /\ \A i \in 1..Len(T) :
          index[i] = DivInt(Sub(T[i], T[1]), 1000000)

NonDecreasing(seq) ==
    \A i \in 1..Len(seq) - 1 : isfinite(seq[i]) /\ isfinite(seq[i + 1])
                               /\ Leq(seq[i], seq[i + 1])

\* what C7 says of a returned set_time_series(frame) = val, without its
\* statement about the first index
C7_Reindexed(val, frame) ==
    /\ val.columns = frame.columns
    /\ val.data = frame.data
    /\ IsElapsed(val.index, frame.data["TIME_StartTime"])
    /\ NonDecreasing(frame.data["TIME_StartTime"]) => NonDecreasing(val.index)

\* what C7 says of a returned process_data(frame) = val
C7_Processed(val, frame) ==
    LET pos == Ascending(FiniteTimeRows(frame))
        T == [k \in 1..Len(pos) |-> frame.data["TIME_StartTime"][pos[k]]]
    IN  /\ Len(val.index) = Len(pos)
        /\ \A k \in 1..Len(val.columns) : val.columns[k] \in DOMAIN frame.data
        /\ \A j, k \in 1..Len(val.columns) :
              j < k => \E a, b \in 1..Len(frame.columns) :
                          /\ a < b
                          /\ frame.columns[a] = val.columns[j]
                          /\ frame.columns[b] = val.columns[k]
        /\ \A c \in DOMAIN frame.data :
              IF \A k \in 1..Len(pos) : CanFloat(frame.data[c][pos[k]])
              THEN /\ c \in DOMAIN val.data
                   /\ \E k \in 1..Len(val.columns) : val.columns[k] = c
                   /\ \A k \in 1..Len(pos) :
                         val.data[c][k] = ToFloat(frame.data[c][pos[k]])
              ELSE c \notin DOMAIN val.data
        /\ IsElapsed(val.index, T)
        /\ val.index[1] = Num(0)

---------------------------------------------------------------------------
(* new_sample, find_meas_period, statistics *)

\* series.diff()
Diff(values) ==
    [i \in 1..Len(values) |->
        IF i = 1 THEN NaN ELSE Sub(values[i], values[i - 1])]

new_sample(series) ==
    SeriesMask(series, [i \in 1..Len(series.values) |->
                           AbsPositive(Diff(series.values)[i])])

find_meas_period(series) ==
    LET new == new_sample(series)
    IN  IF Len(new.index) = 0 THEN Raised("IndexError")
        ELSE Returned(DivInt(Sub(new.index[Len(new.index)], new.index[1]),
                             Len(new.index)))

RECURSIVE SumSeq(_, _)
SumSeq(values, i) ==
    IF i > Len(values) THEN Num(0) ELSE Add(values[i], SumSeq(values, i + 1))

\* the values that are not NaN (pandas reductions skip them)
DropNa(values) == Take(values, TruePositions([i \in 1..Len(values) |->
                                                 ~IsNaN(values[i])], 1))

\* Series.mean()
Mean(values) ==
    LET v == DropNa(values)
    IN  IF Len(v) = 0 THEN NaN ELSE DivInt(SumSeq(v, 1), Len(v))

\* Series.var(): the unbiased sample variance
Var(values) ==
    LET v == DropNa(values)
        m == Mean(values)
        sq == [i \in 1..Len(v) |-> Square(Sub(v[i], m))]
    IN  IF Len(v) < 2 THEN NaN ELSE DivInt(SumSeq(sq, 1), Len(v) - 1)

\* the body of the try block with the mean taken over every sample of the
\* column
measure_AllSamples(frame, key) ==
    IF ~HasColumn(frame, key) THEN Raised("KeyError")
    ELSE IF \E i \in 1..Len(frame.index) : IsStr(frame.data[key][i])
    THEN Raised("TypeError")
    ELSE LET df_meas == new_sample(Column(frame, key))
             period == find_meas_period(df_meas)
             stddev == Sqrt(Var(df_meas.values))
         IN  IF period.exc # "" THEN period
             ELSE Returned([stddev |-> stddev,
                            variance |-> Square(stddev),
                            mean |-> Mean(frame.data[key]),
                            dt |-> period.val,
                            noise_power |-> Mul(Square(stddev), period.val)])

\* the body of the try block of statistics, for one key
measure(frame, key) ==
    IF ~HasColumn(frame, key) THEN Raised("KeyError")
    ELSE IF \E i \in 1..Len(frame.index) : IsStr(frame.data[key][i])
    THEN Raised("TypeError")
    ELSE LET df_meas == new_sample(Column(frame, key))
             period == find_meas_period(df_meas)
             stddev == Sqrt(Var(df_meas.values))
             mean == Mean(df_meas.values)
             variance == Square(stddev)
         IN  IF period.exc # "" THEN period
             ELSE Returned([stddev |-> stddev,
                            variance |-> variance,
                            mean |-> mean,
                            dt |-> period.val,
                            noise_power |-> Mul(variance, period.val)])

\* the values the except block assigns
Zeros == [stddev |-> Num(0), variance |-> Num(0), mean |-> Num(0),
          dt |-> Num(0), noise_power |-> Num(0)]

\* the try/except of statistics with a handler that leaves dt unset
key_statistics_NoDt(frame, key) ==
    LET m == measure(frame, key)
    IN  IF m.exc # "" THEN [Zeros EXCEPT !.dt = NaN] ELSE m.val

\* the try/except of statistics, for one key
key_statistics(frame, key) ==
    LET m == measure(frame, key)
    IN  IF m.exc # "" THEN Zeros ELSE m.val

\* the five dictionary entries statistics stores for a key
Entries(key, r) ==
    (key \o "_stddev" :> r.stddev) @@ (key \o "_variance" :> r.variance)
    @@ (key \o "_mean" :> r.mean) @@ (key \o "_dt" :> r.dt)
    @@ (key \o "_noise_power" :> r.noise_power)

\* the loop of statistics from key i on, data being the dictionary so far;
\* of the plot branch only the exceptions it raises are kept (a missing or
\* text column cannot be plotted, an empty index has no first element)
RECURSIVE statistics_loop(_, _, _, _, _)
statistics_loop(frame, keys, plot, i, data) ==
    IF i > Len(keys) THEN Returned(data)
    ELSE LET stored == Entries(keys[i], key_statistics(frame, keys[i])) @@ data
         IN  IF plot /\ ~HasColumn(frame, keys[i]) THEN Raised("KeyError")
             ELSE IF plot /\ \E r \in 1..Len(frame.index) :
                                IsStr(frame.data[keys[i]][r])
             THEN Raised("TypeError")
             ELSE IF plot /\ Len(frame.index) = 0 THEN Raised("IndexError")
             ELSE statistics_loop(frame, keys, plot, i + 1, stored)

statistics(frame, keys, plot) == statistics_loop(frame, keys, plot, 1, <<>>)

MaxStatRows == 4
MaxVal == 1

StatCells == {NaN} \cup {Num(v) : v \in 0..MaxVal}

\* a log with a free channel, a steadily rising channel and a text column
StatFrame(n, baro) ==
    [index |-> RangeIndex(n),
     columns |-> <<"SENS_BaroAlt", "DIST_Distance", "note">>,
     data |-> [c \in {"SENS_BaroAlt", "DIST_Distance", "note"} |->
                 IF c = "SENS_BaroAlt" THEN baro
                 ELSE IF c = "DIST_Distance" THEN [i \in 1..n |-> Num(i * i)]
                 ELSE [i \in 1..n |-> [s |-> "abc"]]]]

\* the key lists the calls request; GPS_Z is no column of the log
StatKeyLists ==
    { <<>>, <<"GPS_Z">>, <<"note">>,
      <<"SENS_BaroAlt", "DIST_Distance">>,
      <<"SENS_BaroAlt", "GPS_Z", "DIST_Distance">>,
      <<"DIST_Distance", "note", "SENS_BaroAlt", "DIST_Distance">> }

InitStats ==
    /\ \E n \in 0..MaxStatRows : \E baro \in [1..n -> StatCells] :
         df = StatFrame(n, baro)
    /\ call = NoCall
    /\ ret = NoRet

Statistics ==
    \E keys \in StatKeyLists, plot \in BOOLEAN :
        /\ call' = [fn |-> "statistics", keys |-> keys, plot |-> plot]
        /\ ret' = statistics(df, keys, plot)
        /\ UNCHANGED df

NextStats == Statistics

SpecStats == InitStats /\ [][NextStats]_vars


Range(seq) == {seq[i] : i \in 1..Len(seq)}

Suffixes == {"_stddev", "_variance", "_mean", "_dt", "_noise_power"}

Numeric(frame, key) ==
    /\ HasColumn(frame, key)
    /\ \A i \in 1..Len(frame.index) : ~IsStr(frame.data[key][i])

\* the positions of the samples that differ from the sample before them
NewSampleRows(values) ==
    { i \in 2..Len(values) :
        ~IsNaN(values[i]) /\ ~IsNaN(values[i - 1]) /\ values[i] # values[i - 1] }

RECURSIVE SumOver(_, _)
SumOver(values, rows) ==
    IF rows = {} THEN Num(0)
    ELSE LET i == CHOOSE i \in rows : TRUE
         IN  Add(values[i], SumOver(values, rows \ {i}))

Max(S) == CHOOSE i \in S : \A j \in S : j <= i
Min(S) == CHOOSE i \in S : \A j \in S : i <= j

\* mean and unbiased variance of the samples at the given positions, the
\* variance as (sum of squares - n * mean^2) / (n - 1)
MeanOver(values, rows) == DivInt(SumOver(values, rows), Cardinality(rows))
VarOver(values, rows) ==
    LET n == Cardinality(rows)
        squares == [i \in 1..Len(values) |-> Square(values[i])]
    IN  DivInt(Sub(SumOver(squares, rows),
                   Mul(Num(n), Square(MeanOver(values, rows)))), n - 1)

\* C3: statistics returns exactly the five entries k_stddev, k_variance,
\* k_mean, k_dt, k_noise_power of every requested key k; for a key processed
\* without error, mean and stddev are those of the column's new samples,
\* k_variance = k_stddev ** 2 and k_noise_power = k_variance * k_dt.
C3_Statistics ==
    (call.fn = "statistics" /\ ret.exc = "") =>
        /\ DOMAIN ret.val =
              UNION { {k \o sfx : sfx \in Suffixes} : k \in Range(call.keys) }
        /\ \A k \in Range(call.keys) :
              (Numeric(df, k) /\ measure(df, k).exc = "") =>
                 LET rows == NewSampleRows(df.data[k])
                 IN  /\ Cardinality(rows) >= 2
                     /\ ret.val[k \o "_mean"] = MeanOver(df.data[k], rows)
                     /\ ret.val[k \o "_stddev"] = Sqrt(VarOver(df.data[k], rows))
                     /\ ret.val[k \o "_variance"] = Square(ret.val[k \o "_stddev"])
                     /\ ret.val[k \o "_noise_power"] =
                           Mul(ret.val[k \o "_variance"], ret.val[k \o "_dt"])

\* a call that processed two channels with different noise and a missing one
C3_Witness ==
    /\ call.fn = "statistics"
    /\ ret.exc = ""
    /\ call.keys = <<"SENS_BaroAlt", "GPS_Z", "DIST_Distance">>
    /\ measure(df, "SENS_BaroAlt").exc = ""
    /\ ret.val["SENS_BaroAlt_noise_power"] # Num(0)
    /\ ret.val["SENS_BaroAlt_stddev"] # ret.val["DIST_Distance_stddev"]
    /\ ret.val["SENS_BaroAlt_noise_power"] # ret.val["SENS_BaroAlt_variance"]

\* keys without its occurrences of key
Without(keys, key) ==
    Take(keys, TruePositions([i \in 1..Len(keys) |-> keys[i] # key], 1))

\* C5: with plot=False statistics returns for every dataframe and key list;
\* a key whose column is missing or has no new samples (or fails otherwise)
\* gets its five entries equal to 0, and the entries of every other key are
\* what they are when the failing key is not requested.
C5_KeyFailures ==
    (call.fn = "statistics" /\ ~call.plot) =>
        /\ ret.exc = ""
        /\ \A k \in Range(call.keys) :
              (\/ ~HasColumn(df, k)
               \/ Numeric(df, k) /\ NewSampleRows(df.data[k]) = {}
               \/ measure(df, k).exc # "") =>
                 LET others == statistics(df, Without(call.keys, k), FALSE).val
                 IN  /\ \A sfx \in Suffixes : ret.val[k \o sfx] = Num(0)
                     /\ \A j \in Range(call.keys) \ {k} : \A sfx \in Suffixes :
                           ret.val[j \o sfx] = others[j \o sfx]

\* a call with a missing key and a constant column next to a processed one
C5_Witness ==
    /\ call.fn = "statistics"
    /\ ~call.plot
    /\ ret.exc = ""
    /\ call.keys = <<"SENS_BaroAlt", "GPS_Z", "DIST_Distance">>
    /\ Len(df.index) = 3
    /\ \A i \in 1..3 : df.data["SENS_BaroAlt"][i] = Num(1)
    /\ ret.val["GPS_Z_dt"] = Num(0)
    /\ ret.val["SENS_BaroAlt_mean"] = Num(0)
    /\ ret.val["DIST_Distance_stddev"] # Num(0)

\* C8: the dt statistics reports for a key is (time of the last new sample -
\* time of the first new sample) / (number of new samples) over the samples
\* of df[key] that differ from the preceding sample, the samples its mean and
\* stddev are computed over.
C8_MeasPeriod ==
    (call.fn = "statistics" /\ ret.exc = "") =>
        \A k \in Range(call.keys) :
            (Numeric(df, k) /\ measure(df, k).exc = "") =>
                LET rows == NewSampleRows(df.data[k])
                IN  ret.val[k \o "_dt"] =
                       DivInt(Sub(df.index[Max(rows)], df.index[Min(rows)]),
                              Cardinality(rows))


---------------------------------------------------------------------------
(* find_lpe_gains *)

\* pl.array([a, b]).max(): a NaN operand gives NaN
NpMax(a, b) ==
    IF IsNaN(a) \/ IsNaN(b) THEN NaN ELSE IF Less(a, b) THEN b ELSE a

LpeKeys ==
    <<"GPS_X", "GPS_Y", "GPS_Z", "GPS_VelN", "GPS_VelE", "GPS_VelD",
      "DIST_Distance", "IMU1_AccX", "IMU1_AccY", "IMU1_AccZ", "SENS_BaroAlt">>

\* find_lpe_gains with printing=False (printing only writes the gains out)
find_lpe_gains(frame) ==
    LET stats == statistics(frame, LpeKeys, FALSE).val
    IN  Returned(
          [LPE_LDR_Z |-> stats["DIST_Distance_stddev"],
           LPE_BAR_Z |-> stats["SENS_BaroAlt_stddev"],
           LPE_ACC_XY |-> NpMax(stats["IMU1_AccX_stddev"],
                                stats["IMU1_AccX_noise_power"]),
           LPE_ACC_Z |-> stats["IMU1_AccZ_stddev"],
           LPE_GPS_XY |-> NpMax(stats["GPS_X_stddev"], stats["GPS_Y_stddev"]),
           LPE_GPS_Z |-> stats["GPS_Z_stddev"],
           LPE_GPS_VXY |-> NpMax(stats["GPS_VelN_stddev"],
                                 stats["GPS_VelE_stddev"]),
           LPE_GPS_VZ |-> stats["GPS_VelD_stddev"]])

MaxAmp == 3

\* a channel that alternates between 0 and amp
Channel(amp) == <<Num(0), Num(amp), Num(0), Num(amp)>>

HorizontalKeys ==
    {"GPS_X", "GPS_Y", "GPS_VelN", "GPS_VelE", "IMU1_AccX", "IMU1_AccY"}

\* a log whose horizontal channels have independent noise amplitudes and
\* whose vertical channels share one
GainFrame(amp, z) ==
    [index |-> RangeIndex(4),
     columns |-> LpeKeys,
     data |-> [c \in Range(LpeKeys) |->
                 IF c \in HorizontalKeys THEN Channel(amp[c]) ELSE Channel(z)]]

InitGains ==
    /\ \E amp \in [HorizontalKeys -> 1..MaxAmp], z \in 1..MaxAmp :
         df = GainFrame(amp, z)
    /\ call = NoCall
    /\ ret = NoRet

FindLpeGains ==
    /\ call' = [fn |-> "find_lpe_gains", keys |-> <<>>, plot |-> FALSE]
    /\ ret' = find_lpe_gains(df)
    /\ UNCHANGED df

NextGains == FindLpeGains

SpecGains == InitGains /\ [][NextGains]_vars

\* the stddev statistics computes for a channel
StddevOf(frame, key) == statistics(frame, <<key>>, FALSE).val[key \o "_stddev"]

\* C4: every single-axis gain is the stddev of its own channel and every
\* horizontal gain is the larger of the stddevs of its two horizontal
\* channels, LPE_ACC_XY = max(IMU1_AccX, IMU1_AccY) among them.
C4_LpeGains ==
    (call.fn = "find_lpe_gains" /\ ret.exc = "") =>
        /\ ret.val.LPE_LDR_Z = StddevOf(df, "DIST_Distance")
        /\ ret.val.LPE_BAR_Z = StddevOf(df, "SENS_BaroAlt")
        /\ ret.val.LPE_ACC_Z = StddevOf(df, "IMU1_AccZ")
        /\ ret.val.LPE_GPS_Z = StddevOf(df, "GPS_Z")
        /\ ret.val.LPE_GPS_VZ = StddevOf(df, "GPS_VelD")
        /\ ret.val.LPE_GPS_XY =
              NpMax(StddevOf(df, "GPS_X"), StddevOf(df, "GPS_Y"))
        /\ ret.val.LPE_GPS_VXY =
              NpMax(StddevOf(df, "GPS_VelN"), StddevOf(df, "GPS_VelE"))
        /\ ret.val.LPE_ACC_XY =
              NpMax(StddevOf(df, "IMU1_AccX"), StddevOf(df, "IMU1_AccY"))

---------------------------------------------------------------------------
(* background_flight_modes *)

FLIGHT_MODES ==
    <<"MANUAL", "ALTCTL", "POSCTL", "AUTO_MISSION", "AUTO_LOITER", "AUTO_RTL",
      "ACRO", "OFFBOARD", "STAB", "RATTITUDE", "AUTO_TAKEOFF", "AUTO_LAND",
      "AUTO_FOLLOW_TARGET", "MAX">>

\* int(x): truncation toward zero
Trunc(x) == IF x.n >= 0 THEN x.n \div x.d ELSE -((-x.n) \div x.d)

\* Series.unique(): the distinct values in order of first appearance
RECURSIVE Unique(_, _)
Unique(values, i) ==
    IF i > Len(values) THEN <<>>
    ELSE (IF \E j \in 1..(i - 1) : values[j] = values[i] THEN <<>>
          ELSE <<values[i]>>) \o Unique(values, i + 1)

\* the spans pl.axvspan is called with, one per mode, from modes[i] on; the
\* colour, taken from matplotlib's colour table, is left out
RECURSIVE axvspans(_, _, _)
axvspans(series, modes, i) ==
    IF i > Len(modes) THEN Returned(<<>>)
    ELSE LET m == modes[i]
             mode == SeriesMask(series, [k \in 1..Len(series.values) |->
                                            series.values[k] = m])
             rest == axvspans(series, modes, i + 1)
         IN  IF Trunc(m) >= Len(FLIGHT_MODES) \/ Trunc(m) < -Len(FLIGHT_MODES)
             THEN Raised("IndexError")
             ELSE IF rest.exc # "" THEN rest
             ELSE Returned(
                    <<[m |-> m,
                       t_min |-> mode.index[1],
                       t_max |-> mode.index[Len(mode.index)],
                       label |-> FLIGHT_MODES[(Trunc(m) % Len(FLIGHT_MODES)) + 1]]>>
                    \o rest.val)

background_flight_modes(data) ==
    IF ~HasColumn(data, "STAT_MainState") THEN Raised("AttributeError")
    ELSE axvspans(Column(data, "STAT_MainState"),
                  Unique(data.data["STAT_MainState"], 1), 1)

MaxModeRows == 4
MaxMode == 2

ModeFrame(n, st) ==
    [index |-> RangeIndex(n),
     columns |-> <<"STAT_MainState">>,
     data |-> [c \in {"STAT_MainState"} |-> st]]

InitModes ==
    /\ \E n \in 0..MaxModeRows :
         \E st \in [1..n -> {Num(m) : m \in 0..MaxMode}] : df = ModeFrame(n, st)
    /\ call = NoCall
    /\ ret = NoRet

BackgroundFlightModes ==
    /\ call' = [fn |-> "background_flight_modes", keys |-> <<>>, plot |-> FALSE]
    /\ ret' = background_flight_modes(df)
    /\ UNCHANGED df

NextModes == BackgroundFlightModes

SpecModes == InitModes /\ [][NextModes]_vars

\* C1: every span drawn for a mode m covers only samples whose
\* STAT_MainState is m, so the spans of two different modes never overlap,
\* also when a mode is entered more than once.
C1_SameModeSpans ==
    (call.fn = "background_flight_modes" /\ ret.exc = "") =>
        /\ \A k \in 1..Len(ret.val) : \A i \in 1..Len(df.index) :
              (Leq(ret.val[k].t_min, df.index[i])
               /\ Leq(df.index[i], ret.val[k].t_max)) =>
                    df.data["STAT_MainState"][i] = ret.val[k].m
        /\ \A j, k \in 1..Len(ret.val) :
              ret.val[j].m # ret.val[k].m =>
                 \/ Less(ret.val[j].t_max, ret.val[k].t_min)
                 \/ Less(ret.val[k].t_max, ret.val[j].t_min)


---------------------------------------------------------------------------
(* process_lpe_health, all_new_sample *)

HealthNames == <<"baro", "gps", "lidar", "flow", "sonar", "vision", "mocap">>

\* whether int(cell) succeeds
CanInt(c) == IF IsStr(c) THEN c.s = "7" ELSE isfinite(c)
ToInt(c) == IF IsStr(c) THEN 7 ELSE Trunc(c)

RECURSIVE Pow2(_)
Pow2(j) == IF j = 0 THEN 1 ELSE 2 * Pow2(j - 1)

\* whether int(cell) & 2**j is non-zero, for int(cell) >= 0
BitSet(c, j) == (ToInt(c) \div Pow2(j)) % 2 = 1

\* data[name] = values: replaces the column, or appends it as the last one
SetColumn(frame, name, values) ==
    [frame EXCEPT
        !.columns = IF name \in Range(@) THEN @ ELSE Append(@, name),
        !.data = (name :> values) @@ @]

\* the assignments of one for loop of process_lpe_health, from name i on
RECURSIVE SetFlags(_, _, _, _, _)
SetFlags(frame, source, prefix, set, i) ==
    IF i > Len(HealthNames) THEN frame
    ELSE SetFlags(SetColumn(frame, prefix \o HealthNames[i],
                            [r \in 1..Len(frame.index) |->
                                IF BitSet(source[r], i - 1)
                                THEN Num(set) ELSE Num(1 - set)]),
                  source, prefix, set, i + 1)

\* one try block of process_lpe_health: the dataframe it leaves behind
LpeFlags(frame, column, prefix, set) ==
    IF ~HasColumn(frame, column) THEN frame                     \* AttributeError
    ELSE IF \E r \in 1..Len(frame.index) : ~CanInt(frame.data[column][r])
    THEN frame                                                  \* ValueError
    ELSE IF Len(frame.index) = 0 THEN frame                     \* IndexError
    ELSE SetFlags(frame, frame.data[column], prefix, set, 1)

\* the dataframe process_lpe_health leaves in its argument and returns
process_lpe_health(data) ==
    LpeFlags(LpeFlags(data, "EST2_fHealth", "fault_", 1),
             "EST0_fTOut", "timeout_", 0)

\* df_new[key] = new_sample(df[key]): aligned on the index, NaN elsewhere
NewSampleColumn(values) ==
    [i \in 1..Len(values) |->
        IF AbsPositive(Diff(values)[i]) THEN values[i] ELSE NaN]

\* the loop of all_new_sample from column i on: [ret, frame], frame being
\* df_new when the loop ends or raises
RECURSIVE all_new_sample_loop(_, _)
all_new_sample_loop(frame, i) ==
    IF i > Len(frame.columns) THEN [ret |-> Returned(frame), frame |-> frame]
    ELSE LET key == frame.columns[i]
         IN  IF \E r \in 1..Len(frame.index) : IsStr(frame.data[key][r])
             THEN [ret |-> Raised("TypeError"), frame |-> frame]
             ELSE all_new_sample_loop(
                     SetColumn(frame, key, NewSampleColumn(frame.data[key])),
                     i + 1)

all_new_sample(frame) == all_new_sample_loop(frame, 1)

MaxPureRows == 2

HealthCells == {Num(0), Num(5)}
TOutCells == {Num(66), [s |-> "abc"]}

\* a log with a time column, the estimator's health word and, or not, its
\* timeout word
PureFrame(n, hasTOut, health, tout) ==
    [index |-> RangeIndex(n),
     columns |-> <<"TIME_StartTime", "EST2_fHealth">>
                 \o (IF hasTOut THEN <<"EST0_fTOut">> ELSE <<>>),
     data |-> [c \in {"TIME_StartTime", "EST2_fHealth"}
                     \cup (IF hasTOut THEN {"EST0_fTOut"} ELSE {}) |->
                 IF c = "TIME_StartTime" THEN [i \in 1..n |-> Num(250000 * i)]
                 ELSE IF c = "EST2_fHealth" THEN health ELSE tout]]

InitPure ==
    /\ \E n \in 0..MaxPureRows :
         \E hasTOut \in BOOLEAN,
            health \in [1..n -> HealthCells],
            tout \in [1..n -> TOutCells] :
              df = PureFrame(n, hasTOut, health, tout)
    /\ call = NoCall
    /\ ret = NoRet

ProcessLpeHealth ==
    /\ call' = [fn |-> "process_lpe_health", keys |-> <<>>, plot |-> FALSE]
    /\ df' = process_lpe_health(df)
    /\ ret' = Returned(df')

\* pandas.DataFrame(df) shares df's columns with df_new or copies them,
\* depending on the pandas release
AllNewSample ==
    \E shared \in BOOLEAN :
        /\ call' = [fn |-> "all_new_sample", keys |-> <<>>, plot |-> FALSE]
        /\ ret' = all_new_sample(df).ret
        /\ df' = IF shared THEN all_new_sample(df).frame ELSE df

NextPure ==
    \/ ProcessLpeHealth
    \/ AllNewSample
    \/ Statistics
    \/ FindLpeGains
    \/ GetFloatData
    \/ SetTimeSeries
    \/ ProcessData
    \/ GetAutoData
    \/ BackgroundFlightModes

SpecPure == InitPure /\ [][NextPure]_vars

\* C2: no call changes the dataframe the caller passed: its columns and
\* values are the same after any sequence of calls.
C2_Pure == [][df' = df]_vars

=============================================================================
